---- MODULE Spec2Model ----
(***************************************************************************)
(* Model of the vibration plotter: the CSV stitcher (data_loader.py), the  *)
(* spectral estimator (signal_processor.py) and the two batch pipelines    *)
(* (main.py, export_pdf.py).                                               *)
(*                                                                         *)
(* Time values are exact multiples of one tick (0.1 s in the examples of   *)
(* the documentation); floating-point rounding is not modelled.  The float *)
(* NaN that pandas/numpy produce for an empty reduction is the value NaN.  *)
(***************************************************************************)
EXTENDS Integers, Sequences, FiniteSets, TLC

\* ---------------------------------------------------------------------
\* Bounds of the model
\* ---------------------------------------------------------------------
MaxSegments == 2
MaxRows == 3
MaxStart == 1
MaxStep == 1
MaxTime == 2
NumConditions == 2
MaxPipeRows == 2
MaxNperseg == 3
MaxFactor == 2

\* the 5% padding of an axis range, as the fraction 1/RangeScale
RangeScale == 20

\* ---------------------------------------------------------------------
\* Configuration (config.py)
\* ---------------------------------------------------------------------
TIME_COLUMN == "Channel name"
AXIS_COLUMNS == <<"X", "Y", "Z">>

AllColumns == {TIME_COLUMN} \cup {AXIS_COLUMNS[a] : a \in 1..Len(AXIS_COLUMNS)}

\* the configured conditions, in display order, named by their position
CONDITIONS == [c \in 1..NumConditions |-> c]

\* an option that is None
QNone == [kind |-> "none", p |-> 0, q |-> 1]

FFT_CONFIG == [nperseg |-> 1024, overlap |-> 512, max_frequency |-> QNone]

PDF_CONFIG == [downsample_factor |-> 10]

\* ---------------------------------------------------------------------
\* Floating point values: integers plus NaN
\* ---------------------------------------------------------------------
NaN == -999999

FAdd(a, b) == IF a = NaN \/ b = NaN THEN NaN ELSE a + b

\* a <= b on floats: every comparison with NaN is false
FLe(a, b) == a # NaN /\ b # NaN /\ a <= b

RECURSIVE SetMax(_)
SetMax(S) ==
    LET v == CHOOSE e \in S : TRUE
    IN IF S = {v} THEN v
       ELSE LET m == SetMax(S \ {v}) IN IF v > m THEN v ELSE m

RECURSIVE SetMin(_)
SetMin(S) ==
    LET v == CHOOSE e \in S : TRUE
    IN IF S = {v} THEN v
       ELSE LET m == SetMin(S \ {v}) IN IF v < m THEN v ELSE m

\* ---------------------------------------------------------------------
\* Tables (pandas.DataFrame): a set of column names, a row index and the
\* rows, each row a function from the column names to values
\* ---------------------------------------------------------------------
EmptyDataFrame == [columns |-> {}, index |-> <<>>, rows |-> <<>>]

\* len(df)
DfLen(df) == Len(df.rows)

\* df.empty
DfEmpty(df) == df.columns = {} \/ Len(df.index) = 0

\* df[col].values
ColumnValues(df, col) == [j \in 1..Len(df.rows) |-> df.rows[j][col]]

\* the values of a sequence that are not NaN
NonNaN(vals) == {vals[j] : j \in 1..Len(vals)} \ {NaN}

\* df[col].min(): NaN values are skipped, NaN if nothing is left
SegmentMin(df, col) ==
    LET S == NonNaN(ColumnValues(df, col))
    IN IF S = {} THEN NaN ELSE SetMin(S)

\* df[col].max(): NaN values are skipped, NaN if nothing is left
SegmentMax(df, col) ==
    LET S == NonNaN(ColumnValues(df, col))
    IN IF S = {} THEN NaN ELSE SetMax(S)

\* pd.read_csv(csv_file) of a readable file: rows indexed 0..n-1
ReadCsv(file) ==
    [columns |-> file.columns,
     index   |-> [j \in 1..Len(file.rows) |-> j - 1],
     rows    |-> file.rows]

\* df[col] = df[col] + offset
AddToColumn(df, col, offset) ==
    [df EXCEPT !.rows =
        [j \in 1..Len(df.rows) |->
            [df.rows[j] EXCEPT ![col] = FAdd(df.rows[j][col], offset)]]]

\* a variant that re-bases every segment to start at the running offset
AdjustTimeRebased(df, idx, offset) ==
    LET first == IF Len(df.rows) = 0 THEN 0 ELSE df.rows[1][TIME_COLUMN]
    IN AddToColumn(df, TIME_COLUMN, FAdd(offset, 0 - first))

\* data_loader.py:55-57: every file but the first is shifted by the offset
AdjustTime(df, idx, offset) ==
    IF idx > 1 THEN AddToColumn(df, TIME_COLUMN, offset) ELSE df

\* a variant that takes the smallest time value as the next offset
NextCumulativeTimeMin(df) == SegmentMin(df, TIME_COLUMN)

\* data_loader.py:60: the next offset is the largest time of the shifted file
NextCumulativeTime(df) == SegmentMax(df, TIME_COLUMN)

RECURSIVE Flatten(_)
Flatten(seqs) ==
    IF seqs = <<>> THEN <<>> ELSE Head(seqs) \o Flatten(Tail(seqs))

\* a row widened to the columns cols, NaN where the frame had no such column
Widen(row, cols) ==
    [c \in cols |-> IF c \in DOMAIN row THEN row[c] ELSE NaN]

\* a variant that keeps the row labels of the frames (ignore_index=False)
ConcatKeepIndex(dfs) ==
    LET cols == UNION {dfs[k].columns : k \in 1..Len(dfs)}
        rows == Flatten([k \in 1..Len(dfs) |->
                    [j \in 1..Len(dfs[k].rows) |-> Widen(dfs[k].rows[j], cols)]])
    IN [columns |-> cols,
        index   |-> Flatten([k \in 1..Len(dfs) |-> dfs[k].index]),
        rows    |-> rows]

\* pd.concat(dataframes, ignore_index=True)
Concat(dfs) ==
    LET cols == UNION {dfs[k].columns : k \in 1..Len(dfs)}
        rows == Flatten([k \in 1..Len(dfs) |->
                    [j \in 1..Len(dfs[k].rows) |-> Widen(dfs[k].rows[j], cols)]])
    IN [columns |-> cols,
        index   |-> [j \in 1..Len(rows) |-> j - 1],
        rows    |-> rows]

\* ---------------------------------------------------------------------
\* Derived floating point values (rates, frequencies): the fraction p/q with
\* q > 0, NaN, or +infinity
\* ---------------------------------------------------------------------
QNum(p, q) == [kind |-> "num", p |-> p, q |-> q]
QNaN == [kind |-> "nan", p |-> 0, q |-> 1]
QInf == [kind |-> "inf", p |-> 1, q |-> 1]

\* a < b: every comparison with NaN is false
QLt(a, b) ==
    IF a.kind = "nan" \/ b.kind = "nan" THEN FALSE
    ELSE IF a.kind = "inf" THEN FALSE
    ELSE IF b.kind = "inf" THEN TRUE
    ELSE a.p * b.q < b.p * a.q

\* a == b as floats: NaN equals nothing
QEq(a, b) ==
    IF a.kind = "nan" \/ b.kind = "nan" THEN FALSE
    ELSE IF a.kind = "inf" \/ b.kind = "inf" THEN a.kind = b.kind
    ELSE a.p * b.q = b.p * a.q

\* a / 2.0
QHalf(a) == IF a.kind = "num" THEN QNum(a.p, 2 * a.q) ELSE a

RECURSIVE SeqSum(_)
SeqSum(vals) == IF vals = <<>> THEN 0 ELSE Head(vals) + SeqSum(Tail(vals))

\* np.diff(time_data)
Diff(ts) ==
    [j \in 1..(IF Len(ts) = 0 THEN 0 ELSE Len(ts) - 1) |->
        FAdd(ts[j + 1], IF ts[j] = NaN THEN NaN ELSE 0 - ts[j])]

\* np.mean(time_diffs): NaN for an empty array (numpy only warns)
Mean(vals) ==
    IF Len(vals) = 0 \/ \E j \in 1..Len(vals) : vals[j] = NaN THEN QNaN
    ELSE QNum(SeqSum(vals), Len(vals))

\* 1.0 / avg_dt on numpy floats: a zero divisor gives inf (numpy only warns)
Reciprocal(x) ==
    IF x.kind # "num" THEN QNaN
    ELSE IF x.p = 0 THEN QInf
    ELSE IF x.p > 0 THEN QNum(x.q, x.p)
    ELSE QNum(0 - x.q, 0 - x.p)

\* signal_processor.py:14-39
CalculateSamplingRate(ts) == Reciprocal(Mean(Diff(ts)))

\* ---------------------------------------------------------------------
\* State
\* ---------------------------------------------------------------------
VARIABLES
    csv_files,        \* load_and_concatenate_csvs: the files given, in order
    i,                \* ... the number of files processed by the loop
    cumulative_time,  \* ... the running offset
    dataframes,       \* ... the shifted frames collected so far
    combined_df,      \* ... the returned table
    lpc,              \* ... position: "idle", "start", "loop", "done", "raised"
    time_data,        \* calculate_sampling_rate: the time column given
    time_diffs,       \* ... np.diff(time_data)
    avg_dt,           \* ... np.mean(time_diffs)
    fs,               \* ... the value returned
    warnings,         \* ... the RuntimeWarnings numpy has issued
    rpc,              \* ... position: "idle", "start", "diffed", "averaged", "returned"
    program,          \* the script that runs: "main" or "export_pdf"
    argv,             \* sys.argv[1:]
    custom_root,      \* what the path named on the command line holds
    data_path,        \* the root directory the conditions are loaded from
    disk,             \* config.DATA_ROOT: per condition, whether its directory
                      \* exists and the CSV files in it
    fft_config,       \* config.FFT_CONFIG
    pdf_config,       \* config.PDF_CONFIG
    cond_idx,         \* load_all_conditions: position in the condition list
    all_data,         \* condition -> stitched table
    spectra_todo,     \* compute_all_frequency_spectra: conditions still to do
    saxis,            \* compute_frequency_spectrum: next axis (0: not running)
    result,           \* compute_frequency_spectrum: the record being built
    welch_calls,      \* the calls of scipy.signal.welch made so far
    all_spectra,      \* condition -> spectrum record
    max_freq,         \* the display cutoff
    time_fig,         \* the time-domain figure
    freq_fig,         \* the frequency-domain figure
    outputs,          \* the files written to the output directory
    raised,           \* the exception that ended the run, if any
    pc,               \* position of the script
    log               \* what was logged (level) or printed ("PRINT"), in order

stitchVars == <<csv_files, i, cumulative_time, dataframes, combined_df, lpc>>
rateVars == <<time_data, time_diffs, avg_dt, fs, warnings, rpc>>
loadVars == <<cond_idx, all_data>>
spectraVars == <<spectra_todo, saxis, result, welch_calls, all_spectra>>
renderVars == <<max_freq, time_fig, freq_fig, outputs>>
inputVars == <<program, argv, custom_root, data_path, disk, fft_config, pdf_config>>
pipeVars == <<inputVars, loadVars, spectraVars, renderVars, raised, pc>>
vars == <<stitchVars, rateVars, pipeVars, log>>

\* a variant in which the script starts over after an exception
RetriesFromStart == "start"

\* no function of the scripts catches an exception: it leaves main and ends
\* the process with a traceback
Propagates == "crashed"

NoException == [stage |-> "none", cond |-> 0, error |-> "none"]

\* the record compute_frequency_spectrum builds: the two rates and one entry
\* per axis processed so far
EmptyResult == [sampling_rate |-> QNaN, nyquist_freq |-> QNaN, axes |-> <<>>]

NoFigure == [kind |-> "none", grid_rows |-> 0, grid_cols |-> 0,
             subplots |-> {}, traces |-> {}, y_ranges |-> <<>>,
             plotted |-> <<>>]

PipeIdle ==
    /\ program = "none"
    /\ argv = <<>>
    /\ custom_root = "missing"
    /\ data_path = "unset"
    /\ disk = <<>>
    /\ fft_config = FFT_CONFIG
    /\ pdf_config = PDF_CONFIG
    /\ cond_idx = 0
    /\ all_data = <<>>
    /\ spectra_todo = <<>>
    /\ saxis = 0
    /\ result = EmptyResult
    /\ welch_calls = <<>>
    /\ all_spectra = <<>>
    /\ max_freq = QNaN
    /\ time_fig = NoFigure
    /\ freq_fig = NoFigure
    /\ outputs = {}
    /\ raised = NoException
    /\ pc = "idle"

StitchIdle ==
    /\ csv_files = <<>>
    /\ i = 0
    /\ cumulative_time = 0
    /\ dataframes = <<>>
    /\ combined_df = EmptyDataFrame
    /\ lpc = "idle"

RateIdle ==
    /\ time_data = <<>>
    /\ time_diffs = <<>>
    /\ avg_dt = QNaN
    /\ fs = QNaN
    /\ warnings = {}
    /\ rpc = "idle"

Logged(level, msg) == Append(log, <<level, msg>>)

\* what has reached the console: everything printed, and every message of
\* a logger (console handler of setup_logging, or of logging.basicConfig)
ConsoleSink(entries) == entries

\* logger_utils.py:42-51: what has reached the run log file: the messages of
\* the loggers, once setup_logging has opened the file; print does not go
\* through a logger
FileSink(files, entries) ==
    IF "log.txt" \in files
    THEN SelectSeq(entries, LAMBDA m : m[1] # "PRINT")
    ELSE <<>>

\* ---------------------------------------------------------------------
\* Input files
\* ---------------------------------------------------------------------
\* the time column of n rows that starts at start and advances by step
TimeColumn(start, step, n) == [j \in 1..n |-> start + step * (j - 1)]

\* the time columns of the input files: uniformly sampled, starting before,
\* at or after zero, advancing, standing still or running backwards
TimeSeqs ==
    {TimeColumn(start, step, n) :
        start \in -1..MaxStart, step \in -1..MaxStep, n \in 0..MaxRows}

\* the amplitude stored in column col of row j of file k
AxisValue(col, k, j) ==
    LET a == CHOOSE a \in 1..Len(AXIS_COLUMNS) : AXIS_COLUMNS[a] = col
    IN 100 * a + 10 * k + j

\* a CSV file number k with the columns cols and the time values ts
CsvFile(readable, cols, ts, k) ==
    [name     |-> k,
     readable |-> readable,
     columns  |-> cols,
     rows     |-> [j \in 1..Len(ts) |->
                     [c \in cols |-> IF c = TIME_COLUMN THEN ts[j]
                                     ELSE AxisValue(c, k, j)]]]

\* ---------------------------------------------------------------------
\* load_and_concatenate_csvs, one loop iteration per step
\* ---------------------------------------------------------------------
\* the files a directory can hold: a well-formed CSV file with any time
\* column, a file pd.read_csv cannot read, a CSV file without the time
\* column, a CSV file without the first axis column
FileContents ==
    {<<"ok", ts>> : ts \in TimeSeqs}
        \cup {<<"unreadable", <<>>>>, <<"no_time", <<0>>>>, <<"no_axis", <<0, 1>>>>}

FileOf(content, k) ==
    IF content[1] = "unreadable"
      THEN CsvFile(FALSE, {}, <<>>, k)
    ELSE IF content[1] = "no_time"
      THEN CsvFile(TRUE, AllColumns \ {TIME_COLUMN}, content[2], k)
    ELSE IF content[1] = "no_axis"
      THEN CsvFile(TRUE, AllColumns \ {AXIS_COLUMNS[1]}, content[2], k)
    ELSE CsvFile(TRUE, AllColumns, content[2], k)

StitchInit ==
    /\ \E n \in 0..MaxSegments :
         \E content \in [1..n -> FileContents] :
            csv_files = [k \in 1..n |-> FileOf(content[k], k)]
    /\ i = 0
    /\ cumulative_time = 0
    /\ dataframes = <<>>
    /\ combined_df = EmptyDataFrame
    /\ lpc = "start"
    /\ log = <<>>
    /\ RateIdle
    /\ PipeIdle

\* a variant without the test for an empty list
NoFilesNeverTested(files) == FALSE

\* data_loader.py:41: "if not csv_files"
NoFilesGiven(files) == files = <<>>

\* data_loader.py:41-43
StitchNoFiles ==
    /\ lpc = "start"
    /\ NoFilesGiven(csv_files)
    /\ log' = Logged("WARNING", "No CSV files provided")
    /\ combined_df' = EmptyDataFrame
    /\ lpc' = "done"
    /\ UNCHANGED <<csv_files, i, cumulative_time, dataframes, rateVars, pipeVars>>

\* data_loader.py:45-46
StitchBegin ==
    /\ lpc = "start"
    /\ ~NoFilesGiven(csv_files)
    /\ dataframes' = <<>>
    /\ cumulative_time' = 0
    /\ i' = 0
    /\ lpc' = "loop"
    /\ UNCHANGED <<csv_files, combined_df, log, rateVars, pipeVars>>

\* does pd.read_csv or df['Channel name'] raise for this file?
FileRaises(file) == ~file.readable \/ TIME_COLUMN \notin file.columns

\* data_loader.py:48-62, an iteration that completes
StitchLoadFile ==
    /\ lpc = "loop"
    /\ i < Len(csv_files)
    /\ ~FileRaises(csv_files[i + 1])
    /\ LET df == AdjustTime(ReadCsv(csv_files[i + 1]), i + 1, cumulative_time)
       IN /\ cumulative_time' = NextCumulativeTime(df)
          /\ dataframes' = Append(dataframes, df)
    /\ i' = i + 1
    /\ log' = Logged("INFO", "Loading")
    /\ UNCHANGED <<csv_files, combined_df, lpc, rateVars, pipeVars>>

\* data_loader.py:52,57,60: read_csv or the column lookup raises; nothing in
\* the function catches it
StitchLoadFileRaises ==
    /\ lpc = "loop"
    /\ i < Len(csv_files)
    /\ FileRaises(csv_files[i + 1])
    /\ log' = Logged("INFO", "Loading")
    /\ lpc' = "raised"
    /\ UNCHANGED <<csv_files, i, cumulative_time, dataframes, combined_df, rateVars, pipeVars>>

\* data_loader.py:65-70
StitchConcat ==
    /\ lpc = "loop"
    /\ i = Len(csv_files)
    /\ combined_df' = Concat(dataframes)
    /\ log' = Append(Logged("INFO", "Total data points"), <<"INFO", "Time range">>)
    /\ lpc' = "done"
    /\ UNCHANGED <<csv_files, i, cumulative_time, dataframes, rateVars, pipeVars>>

StitchNext ==
    \/ StitchNoFiles
    \/ StitchBegin
    \/ StitchLoadFile
    \/ StitchLoadFileRaises
    \/ StitchConcat

SpecStitch == StitchInit /\ [][StitchNext]_vars

\* ---------------------------------------------------------------------
\* Properties of the stitcher
\* ---------------------------------------------------------------------
\* the time column of the returned table
StitchedTime == ColumnValues(combined_df, TIME_COLUMN)

NonDecreasing(ts) == \A j \in 1..(Len(ts) - 1) : FLe(ts[j], ts[j + 1])

FileTime(file) == [j \in 1..Len(file.rows) |-> file.rows[j][TIME_COLUMN]]

\* a segment as the data model describes it: at least one row, time values
\* that never decrease, and a first time value that is not negative
WellFormedSegment(file) ==
    /\ file.readable
    /\ TIME_COLUMN \in file.columns
    /\ Len(file.rows) >= 1
    /\ file.rows[1][TIME_COLUMN] >= 0
    /\ \A j \in 1..(Len(file.rows) - 1) :
          file.rows[j][TIME_COLUMN] <= file.rows[j + 1][TIME_COLUMN]

\* C1, as stated: whenever two or more segments have been stitched, the time
\* column of the result never decreases from one row to the next.
C1_MonotoneForEveryInput ==
    (lpc = "done" /\ Len(csv_files) >= 2) => NonDecreasing(StitchedTime)

\* C1, amended: whenever two or more segments have been stitched, each of them
\* with at least one row, a non-decreasing time column and a first time value
\* >= 0, the time column of the result never decreases from one row to the
\* next, the pairs of rows across a file boundary included.
C1_MonotoneForWellFormedSegments ==
    (/\ lpc = "done"
     /\ Len(csv_files) >= 2
     /\ \A k \in 1..Len(csv_files) : WellFormedSegment(csv_files[k]))
    => NonDecreasing(StitchedTime)

C1_Witness ==
    /\ lpc = "done"
    /\ Len(csv_files) >= 2
    /\ \A k \in 1..Len(csv_files) :
          WellFormedSegment(csv_files[k]) /\ Len(csv_files[k].rows) >= 2
    /\ Len(StitchedTime) = Len(csv_files[1].rows) + Len(csv_files[2].rows)
    /\ StitchedTime[Len(csv_files[1].rows) + 1] > csv_files[2].rows[1][TIME_COLUMN]

\* C2: stitching exactly one segment returns its rows as they were read: the
\* time column value for value, with no offset added, and every other column
\* unchanged.
C2_SingleSegmentUnchanged ==
    (lpc = "done" /\ Len(csv_files) = 1) =>
        /\ StitchedTime = FileTime(csv_files[1])
        /\ combined_df.columns = csv_files[1].columns
        /\ combined_df.rows = csv_files[1].rows

C2_Witness ==
    /\ lpc = "done"
    /\ Len(csv_files) = 1
    /\ Len(combined_df.rows) >= 2
    /\ combined_df.rows[1][TIME_COLUMN] # 0
    /\ cumulative_time # 0

\* the documented example: two files with the time column [0, 0.1, 0.2]
ExampleFiles ==
    [k \in 1..2 |-> CsvFile(TRUE, AllColumns, <<0, 1, 2>>, k)]

\* C3 (state part): the running offset is 0 before the first file is
\* processed, and the documented example stitches to the 6 rows with the
\* times [0, 0.1, 0.2, 0.2, 0.3, 0.4].
C3_OffsetInv ==
    /\ (lpc = "loop" /\ i = 0) => cumulative_time = 0
    /\ (lpc = "done" /\ csv_files = ExampleFiles) =>
          StitchedTime = <<0, 1, 2, 2, 3, 4>>

\* C3 (step part): processing the next file, in file order, appends that file
\* with the current offset added to every time value, and sets the offset to
\* the largest time value of the shifted file.
C3_OffsetStep ==
    (/\ lpc = "loop"
     /\ i' = i + 1
     /\ cumulative_time # NaN
     /\ Len(csv_files[i + 1].rows) >= 1)
    => /\ Len(dataframes') = i + 1
       /\ SubSeq(dataframes', 1, i) = dataframes
       /\ LET file == csv_files[i + 1]
              df == dataframes'[i + 1]
          IN /\ Len(df.rows) = Len(file.rows)
             /\ \A j \in 1..Len(file.rows) :
                   df.rows[j][TIME_COLUMN]
                       = file.rows[j][TIME_COLUMN] + cumulative_time
             /\ \A j \in 1..Len(df.rows) :
                   df.rows[j][TIME_COLUMN] <= cumulative_time'
             /\ \E j \in 1..Len(df.rows) :
                   df.rows[j][TIME_COLUMN] = cumulative_time'

\* C3: the stitcher keeps a running offset that starts at 0; each file, in
\* file order, gets the current offset added to every time value, after which
\* the offset becomes the largest time value of the shifted file; so the files
\* [0, 0.1, 0.2] and [0, 0.1, 0.2] stitch to [0, 0.1, 0.2, 0.2, 0.3, 0.4].
C3_RunningOffset == [] C3_OffsetInv /\ [][C3_OffsetStep]_vars

C3_Witness ==
    /\ lpc = "done"
    /\ csv_files = ExampleFiles
    /\ Len(combined_df.rows) = 6
    /\ cumulative_time = 4

\* ---------------------------------------------------------------------
\* calculate_sampling_rate, statement by statement
\* ---------------------------------------------------------------------
TimeValues == (-1..MaxTime) \cup {NaN}

RateInit ==
    /\ \E n \in 0..MaxRows : \E ts \in [1..n -> TimeValues] : time_data = ts
    /\ time_diffs = <<>>
    /\ avg_dt = QNaN
    /\ fs = QNaN
    /\ warnings = {}
    /\ rpc = "start"
    /\ log = <<>>
    /\ StitchIdle
    /\ PipeIdle

\* signal_processor.py:27-28
RateDiff ==
    /\ rpc = "start"
    /\ time_diffs' = Diff(time_data)
    /\ rpc' = "diffed"
    /\ UNCHANGED <<time_data, avg_dt, fs, warnings, log, stitchVars, pipeVars>>

\* signal_processor.py:30-31
RateMean ==
    /\ rpc = "diffed"
    /\ avg_dt' = Mean(time_diffs)
    /\ warnings' = IF Len(time_diffs) = 0
                     THEN warnings \cup {"Mean of empty slice"}
                     ELSE warnings
    /\ rpc' = "averaged"
    /\ UNCHANGED <<time_data, time_diffs, fs, log, stitchVars, pipeVars>>

\* signal_processor.py:33-39
RateDivide ==
    /\ rpc = "averaged"
    /\ fs' = Reciprocal(avg_dt)
    /\ warnings' = IF avg_dt.kind = "num" /\ avg_dt.p = 0
                     THEN warnings \cup {"divide by zero"}
                     ELSE warnings
    /\ log' = Append(Logged("INFO", "Calculated sampling rate"),
                     <<"INFO", "Average time step">>)
    /\ rpc' = "returned"
    /\ UNCHANGED <<time_data, time_diffs, avg_dt, stitchVars, pipeVars>>

RateNext ==
    \/ RateDiff
    \/ RateMean
    \/ RateDivide

SpecRate == RateInit /\ [][RateNext]_vars

\* ---------------------------------------------------------------------
\* Properties of the sampling-rate estimator
\* ---------------------------------------------------------------------
\* C7: given a time column of fewer than 2 samples the estimator reports an
\* error; it never returns a sampling rate for it.
C7_RejectsFewerThanTwoSamples ==
    Len(time_data) < 2 => rpc # "returned"

\* C8: given a time column of at least 2 samples the estimator returns
\* 1 / mean(successive differences) and the division is never by zero.
C8_NoDivisionByZero ==
    (rpc = "returned" /\ Len(time_data) >= 2) =>
        /\ "divide by zero" \notin warnings
        /\ fs.kind # "inf"

\* ---------------------------------------------------------------------
\* The data root on disk
\* ---------------------------------------------------------------------
RECURSIVE SortedSeq(_)
SortedSeq(S) ==
    IF S = {} THEN <<>>
    ELSE LET m == SetMin(S) IN <<m>> \o SortedSeq(S \ {m})

\* data_loader.py:15-27: the CSV files of a directory, sorted by name
FindCsvFiles(dir) ==
    LET order == SortedSeq({f.name : f \in dir.files})
    IN [k \in 1..Len(order) |-> CHOOSE f \in dir.files : f.name = order[k]]

\* the files of the condition directories: unreadable, without the time
\* column, without the first axis column, or well formed with 0..MaxPipeRows
\* rows sampled once per tick from time 0
PipeContents ==
    {<<"unreadable", <<>>>>, <<"no_time", <<0>>>>, <<"no_axis", <<0, 1>>>>}
        \cup {<<"ok", TimeColumn(0, 1, n)>> : n \in 0..MaxPipeRows}

\* a file that follows another one: unreadable, without the first axis
\* column, or well formed with one row
SecondContents ==
    {<<"unreadable", <<>>>>, <<"no_axis", <<0, 1>>>>, <<"ok", TimeColumn(0, 1, 1)>>}

\* a directory holds no file, one file, or a full well-formed file followed
\* by one more file
DirListings ==
    {<<>>}
        \cup {<<f>> : f \in PipeContents}
        \cup {<< <<"ok", TimeColumn(0, 1, MaxPipeRows)>>, f >> : f \in SecondContents}

Directory(listing) ==
    [exists |-> TRUE,
     files  |-> {FileOf(listing[k], k) : k \in 1..Len(listing)}]

MissingDirectory == [exists |-> FALSE, files |-> {}]

Directories == {MissingDirectory} \cup {Directory(l) : l \in DirListings}

\* ---------------------------------------------------------------------
\* main.py and export_pdf.py: start and load stage
\* ---------------------------------------------------------------------
\* the configuration as shipped, or with a maximum display frequency set by
\* the user: a quarter of a cycle per tick, or one cycle per tick
FftConfigs ==
    {FFT_CONFIG} \cup {[FFT_CONFIG EXCEPT !.max_frequency = QNum(1, d)] : d \in {1, 4}}

\* what the directory named on the command line can hold: nothing (the path
\* does not exist), no condition directory, or the condition directories of
\* the default root in reverse order
CustomRoots == {"missing", "empty", "reversed"}

\* the condition directories below a root directory
Tree(path, default_tree, custom) ==
    IF path = "DATA_ROOT" THEN default_tree
    ELSE IF custom = "reversed"
         THEN [c \in DOMAIN default_tree |->
                  default_tree[Len(CONDITIONS) + 1 - c]]
         ELSE [c \in DOMAIN default_tree |-> MissingDirectory]

\* a variant that takes every path for an existing one
PathAlwaysExists(path, custom) == TRUE

\* main.py:119-120: Path.exists() of a path; the default root is any tree,
\* also one without any condition directory

PathExists(path, custom) == path = "DATA_ROOT" \/ custom # "missing"

\* main.py:117-126 and 31-32: the root given on the command line, else the
\* configured one
ResolveDataPath(args) == IF Len(args) > 0 THEN args[1] ELSE "DATA_ROOT"

\* the configuration as shipped, or with another downsampling factor set by
\* the user; only export_pdf reads it
PdfConfigs ==
    {PDF_CONFIG} \cup {[PDF_CONFIG EXCEPT !.downsample_factor = f] : f \in 0..MaxFactor}

Init ==
    /\ program \in {"main", "export_pdf"}
    /\ pdf_config \in (IF program = "export_pdf" THEN PdfConfigs ELSE {PDF_CONFIG})
    /\ \/ argv = <<>> /\ custom_root = "missing"
       \/ program = "main" /\ argv = <<"custom">> /\ custom_root \in CustomRoots
    /\ data_path = "unset"
    /\ disk \in [1..NumConditions -> Directories]
    /\ fft_config \in FftConfigs
    /\ cond_idx = 0
    /\ all_data = <<>>
    /\ spectra_todo = <<>>
    /\ saxis = 0
    /\ result = EmptyResult
    /\ welch_calls = <<>>
    /\ all_spectra = <<>>
    /\ max_freq = QNaN
    /\ time_fig = NoFigure
    /\ freq_fig = NoFigure
    /\ outputs = {}
    /\ raised = NoException
    /\ pc = "cli"
    /\ log = <<>>
    /\ StitchIdle
    /\ RateIdle

\* main.py:115-122: a path is given and does not exist
CliPathMissing ==
    /\ pc = "cli"
    /\ program = "main"
    /\ Len(argv) > 0
    /\ ~PathExists(argv[1], custom_root)
    /\ log' = Append(log, <<"PRINT", "Path does not exist", 0>>)
    /\ pc' = "exit_1"
    /\ UNCHANGED <<stitchVars, rateVars, inputVars, loadVars, spectraVars,
                   renderVars, raised>>

\* main.py:115-126 and 31-32: main is called with the path given, or
\* without one and takes the configured root
CliCallMain ==
    /\ pc = "cli"
    /\ program = "main"
    /\ Len(argv) > 0 => PathExists(argv[1], custom_root)
    /\ data_path' = ResolveDataPath(argv)
    /\ pc' = "start"
    /\ UNCHANGED <<stitchVars, rateVars, program, argv, custom_root, disk,
                   fft_config, pdf_config, loadVars, spectraVars, renderVars,
                   raised, log>>

\* export_pdf.py:130-131 and 46: main takes no argument and loads from the
\* configured root
CliCallExport ==
    /\ pc = "cli"
    /\ program = "export_pdf"
    /\ data_path' = "DATA_ROOT"
    /\ pc' = "start"
    /\ UNCHANGED <<stitchVars, rateVars, program, argv, custom_root, disk,
                   fft_config, pdf_config, loadVars, spectraVars, renderVars,
                   raised, log>>

\* main.py:30-43 and data_loader.py:84: the log file is opened, then
\* load_all_conditions is entered
MainStart ==
    /\ pc = "start"
    /\ program = "main"
    /\ outputs' = outputs \cup {"log.txt"}
    /\ log' = Append(Append(Append(log, <<"PRINT", "Using data path", 0>>),
                     <<"PRINT", "Logging to", 0>>),
                     <<"PRINT", "STEP 1: LOADING DATA", 0>>)
    /\ all_data' = <<>>
    /\ cond_idx' = 1
    /\ pc' = "load"
    /\ UNCHANGED <<stitchVars, rateVars, inputVars, spectraVars,
                   max_freq, time_fig, freq_fig, raised>>

\* export_pdf.py:29-46 and data_loader.py:84
ExportStart ==
    /\ pc = "start"
    /\ program = "export_pdf"
    /\ log' = Append(Append(log, <<"PRINT", "PDF EXPORT TOOL", 0>>),
                     <<"PRINT", "STEP 1: LOADING DATA", 0>>)
    /\ all_data' = <<>>
    /\ cond_idx' = 1
    /\ pc' = "load"
    /\ UNCHANGED <<stitchVars, rateVars, inputVars, spectraVars, renderVars, raised>>

\* data_loader.py:86-91: the condition's directory does not exist
LoadMissingDir ==
    /\ pc = "load"
    /\ lpc = "idle"
    /\ cond_idx <= Len(CONDITIONS)
    /\ ~Tree(data_path, disk, custom_root)[CONDITIONS[cond_idx]].exists
    /\ log' = Append(log, <<"WARNING", "Condition directory not found",
                            CONDITIONS[cond_idx]>>)
    /\ cond_idx' = cond_idx + 1
    /\ UNCHANGED <<stitchVars, rateVars, inputVars, all_data, spectraVars,
                   renderVars, raised, pc>>

\* data_loader.py:86-97: the directory exists; its files are listed and
\* load_and_concatenate_csvs is called with them
LoadFindFiles ==
    /\ pc = "load"
    /\ lpc = "idle"
    /\ cond_idx <= Len(CONDITIONS)
    /\ Tree(data_path, disk, custom_root)[CONDITIONS[cond_idx]].exists
    /\ log' = Append(Append(log, <<"INFO", "Loading condition", CONDITIONS[cond_idx]>>),
                     <<"INFO", "Found CSV files", CONDITIONS[cond_idx]>>)
    /\ csv_files' = FindCsvFiles(Tree(data_path, disk, custom_root)[CONDITIONS[cond_idx]])
    /\ lpc' = "start"
    /\ UNCHANGED <<i, cumulative_time, dataframes, combined_df, rateVars,
                   pipeVars>>

\* the test "not df.empty" of data_loader.py:99
KeepsEverything(df) == TRUE

HasData(df) == ~DfEmpty(df)

\* data_loader.py:97-100: load_and_concatenate_csvs has returned; the table
\* is kept unless it is empty
LoadStore ==
    /\ pc = "load"
    /\ lpc = "done"
    /\ all_data' = IF HasData(combined_df)
                     THEN all_data @@ (CONDITIONS[cond_idx] :> combined_df)
                     ELSE all_data
    /\ cond_idx' = cond_idx + 1
    /\ lpc' = "idle"
    /\ UNCHANGED <<csv_files, i, cumulative_time, dataframes, combined_df,
                   rateVars, inputVars, spectraVars, renderVars, raised, pc, log>>

\* data_loader.py:97: load_and_concatenate_csvs has raised; neither
\* load_all_conditions nor main catches it, the script ends with a traceback
LoadRaised ==
    /\ pc = "load"
    /\ lpc = "raised"
    /\ raised' = [stage |-> "load", cond |-> CONDITIONS[cond_idx],
                  error |-> IF csv_files[i + 1].readable THEN "KeyError"
                            ELSE "read_csv"]
    /\ pc' = Propagates
    /\ lpc' = "idle"
    /\ UNCHANGED <<csv_files, i, cumulative_time, dataframes, combined_df,
                   rateVars, inputVars, loadVars, spectraVars, renderVars, log>>

\* data_loader.py:102
LoadReturn ==
    /\ pc = "load"
    /\ lpc = "idle"
    /\ cond_idx > Len(CONDITIONS)
    /\ pc' = "loaded"
    /\ UNCHANGED <<stitchVars, rateVars, inputVars, loadVars, spectraVars,
                   renderVars, raised, log>>

\* a variant without the test for an empty result
NeverEmpty(data) == FALSE

\* the test "not all_data" of main.py:45 and export_pdf.py:48
NoDataLoaded(data) == DOMAIN data = {}

\* main.py:45-47, export_pdf.py:48-50: nothing was loaded, the run ends
CheckNoData ==
    /\ pc = "loaded"
    /\ NoDataLoaded(all_data)
    /\ log' = Append(log, <<"ERROR", "No data loaded", 0>>)
    /\ pc' = "no_data"
    /\ UNCHANGED <<stitchVars, rateVars, inputVars, loadVars, spectraVars,
                   renderVars, raised>>

\* ---------------------------------------------------------------------
\* Spectral stage (signal_processor.py)
\* ---------------------------------------------------------------------
Min(a, b) == IF a <= b THEN a ELSE b

\* a <= b on floats
QLe(a, b) == QLt(a, b) \/ QEq(a, b)

\* signal_processor.py:87: the window cannot be longer than the signal
WelchNperseg(cfg, signal_len) == Min(cfg.nperseg, signal_len)

\* a variant that passes the configured overlap on unclamped
WelchOverlapUnclamped(cfg, nperseg) == cfg.overlap

\* signal_processor.py:88: the overlap stays below the window
WelchOverlap(cfg, nperseg) == Min(cfg.overlap, nperseg - 1)

\* bin k of the frequencies scipy.signal.welch returns: k * fs / nperseg
WelchFrequency(rate, k, nperseg) ==
    IF rate.kind = "num" THEN QNum(k * rate.p, rate.q * nperseg)
    ELSE IF rate.kind = "inf" /\ k > 0 THEN QInf
    ELSE QNaN

\* signal_processor.py:96-114: the entry stored for one axis.  The spectral
\* estimate itself is the library's; the model keeps the nperseg \div 2 + 1
\* frequency bins and names each magnitude by its condition, axis and bin
WelchEntry(cond, axis, rate, nperseg) ==
    [frequencies |-> [k \in 1..(nperseg \div 2 + 1) |->
                        WelchFrequency(rate, k - 1, nperseg)],
     magnitude   |-> [k \in 1..(nperseg \div 2 + 1) |->
                        <<"magnitude", cond, axis, k - 1>>]]

\* a sampling rate on which the library's behaviour is not defined by this
\* repository: NaN, infinite, zero or negative
DegenerateRate(rate) == rate.kind # "num" \/ rate.p <= 0

\* a variant that leaves out the first item
ItemsAfterFirst(data) == Tail(SortedSeq(DOMAIN data))

\* signal_processor.py:147: all_data.items(), the keys in insertion order,
\* which is the order of CONDITIONS
Items(data) == SortedSeq(DOMAIN data)

\* main.py:49-58 / export_pdf.py:52-66 and signal_processor.py:141-147
SpectraBegin ==
    /\ pc = "loaded"
    /\ ~NoDataLoaded(all_data)
    /\ log' = Append(Append(log, <<"PRINT", "Successfully loaded", 0>>),
                     <<"PRINT", "COMPUTING FREQUENCY SPECTRA", 0>>)
    /\ all_spectra' = <<>>
    /\ spectra_todo' = Items(all_data)
    /\ saxis' = 0
    /\ pc' = "spectra"
    /\ UNCHANGED <<stitchVars, rateVars, inputVars, loadVars, result,
                   welch_calls, renderVars, raised>>

\* signal_processor.py:147-152 and 68-79: the next condition is taken up,
\* its sampling rate and Nyquist frequency are computed
SpectrumStart ==
    /\ pc = "spectra"
    /\ saxis = 0
    /\ spectra_todo # <<>>
    /\ LET df == all_data[Head(spectra_todo)]
           rate == CalculateSamplingRate(ColumnValues(df, TIME_COLUMN))
       IN result' = [sampling_rate |-> rate,
                     nyquist_freq  |-> QHalf(rate),
                     axes          |-> <<>>]
    /\ saxis' = 1
    /\ log' = Append(Append(Append(Append(log,
                     <<"PRINT", "Processing", Head(spectra_todo)>>),
                     <<"INFO", "Calculated sampling rate", Head(spectra_todo)>>),
                     <<"INFO", "Average time step", Head(spectra_todo)>>),
                     <<"INFO", "Nyquist frequency", Head(spectra_todo)>>)
    /\ UNCHANGED <<stitchVars, rateVars, inputVars, loadVars, spectra_todo,
                   welch_calls, all_spectra, renderVars, raised, pc>>

\* signal_processor.py:83-119: one axis of the condition
SpectrumAxis ==
    /\ pc = "spectra"
    /\ saxis >= 1
    /\ saxis <= Len(AXIS_COLUMNS)
    /\ AXIS_COLUMNS[saxis] \in all_data[Head(spectra_todo)].columns
    /\ LET cond == Head(spectra_todo)
           axis == AXIS_COLUMNS[saxis]
           signal_data == ColumnValues(all_data[cond], axis)
           nperseg == WelchNperseg(fft_config, Len(signal_data))
           overlap == WelchOverlap(fft_config, nperseg)
       IN /\ welch_calls' = Append(welch_calls,
                 [cond |-> cond, axis |-> axis, signal_len |-> Len(signal_data),
                  nperseg |-> nperseg, noverlap |-> overlap])
          /\ result' = [result EXCEPT !.axes =
                 @ @@ (axis :> WelchEntry(cond, axis, result.sampling_rate, nperseg))]
    /\ saxis' = saxis + 1
    /\ log' = Append(Append(log, <<"INFO", "Computing FFT", Head(spectra_todo)>>),
                     <<"INFO", "Peak frequency", Head(spectra_todo)>>)
    /\ UNCHANGED <<stitchVars, rateVars, inputVars, loadVars, spectra_todo,
                   all_spectra, renderVars, raised, pc>>

\* signal_processor.py:84: the table has no such column; the KeyError is not
\* caught anywhere
SpectrumAxisKeyError ==
    /\ pc = "spectra"
    /\ saxis >= 1
    /\ saxis <= Len(AXIS_COLUMNS)
    /\ AXIS_COLUMNS[saxis] \notin all_data[Head(spectra_todo)].columns
    /\ raised' = [stage |-> "spectra", cond |-> Head(spectra_todo),
                  error |-> "KeyError"]
    /\ pc' = Propagates
    /\ UNCHANGED <<stitchVars, rateVars, inputVars, loadVars, spectraVars,
                   renderVars, log>>

\* signal_processor.py:96-103: with a degenerate sampling rate the library
\* call may raise instead of returning; the exception is not caught anywhere
SpectrumWelchRaises ==
    /\ pc = "spectra"
    /\ saxis >= 1
    /\ saxis <= Len(AXIS_COLUMNS)
    /\ AXIS_COLUMNS[saxis] \in all_data[Head(spectra_todo)].columns
    /\ DegenerateRate(result.sampling_rate)
    /\ raised' = [stage |-> "spectra", cond |-> Head(spectra_todo),
                  error |-> "welch"]
    /\ log' = Append(log, <<"INFO", "Computing FFT", Head(spectra_todo)>>)
    /\ pc' = Propagates
    /\ UNCHANGED <<stitchVars, rateVars, inputVars, loadVars, spectraVars,
                   renderVars>>

\* signal_processor.py:121 and 154: the record is returned and stored
SpectrumDone ==
    /\ pc = "spectra"
    /\ saxis > Len(AXIS_COLUMNS)
    /\ all_spectra' = all_spectra @@ (Head(spectra_todo) :> result)
    /\ spectra_todo' = Tail(spectra_todo)
    /\ saxis' = 0
    /\ UNCHANGED <<stitchVars, rateVars, inputVars, loadVars, result,
                   welch_calls, renderVars, raised, pc, log>>

\* signal_processor.py:156
SpectraReturn ==
    /\ pc = "spectra"
    /\ saxis = 0
    /\ spectra_todo = <<>>
    /\ pc' = "display_range"
    /\ UNCHANGED <<stitchVars, rateVars, inputVars, loadVars, spectraVars,
                   renderVars, raised, log>>

\* the builtin min over a sequence: the first item, replaced by each later
\* item that compares smaller
RECURSIVE PyMinFrom(_, _)
PyMinFrom(m, vals) ==
    IF vals = <<>> THEN m
    ELSE PyMinFrom(IF QLt(Head(vals), m) THEN Head(vals) ELSE m, Tail(vals))

PyMin(vals) == PyMinFrom(Head(vals), Tail(vals))

\* spec['nyquist_freq'] for spec in all_spectra.values(), in insertion order
NyquistFrequencies(spectra) ==
    LET order == SortedSeq(DOMAIN spectra)
    IN [k \in 1..Len(order) |-> spectra[order[k]].nyquist_freq]

\* a variant that ignores the configured maximum
GetFrequencyDisplayRangeNoCap(spectra, cfg) == PyMin(NyquistFrequencies(spectra))

\* signal_processor.py:160-185
GetFrequencyDisplayRange(spectra, cfg) ==
    LET min_nyquist == PyMin(NyquistFrequencies(spectra))
    IN IF cfg.max_frequency # QNone
         THEN PyMin(<<cfg.max_frequency, min_nyquist>>)
         ELSE min_nyquist

\* main.py:61 / export_pdf.py:68
DisplayRange ==
    /\ pc = "display_range"
    /\ max_freq' = GetFrequencyDisplayRange(all_spectra, fft_config)
    /\ log' = Append(Append(log, <<"INFO", "Frequency display range", 0>>),
                     <<"PRINT", "Successfully computed spectra", 0>>)
    /\ pc' = "render"
    /\ UNCHANGED <<stitchVars, rateVars, inputVars, loadVars, spectraVars,
                   time_fig, freq_fig, outputs, raised>>

\* ---------------------------------------------------------------------
\* Render stage (plotter.py, plotter_static.py)
\* ---------------------------------------------------------------------
\* a variant that keeps the first rows instead of every Nth row
DownsampleDataHead(df, factor) ==
    IF factor <= 1 THEN df
    ELSE LET n == (Len(df.rows) + factor - 1) \div factor
         IN [columns |-> df.columns,
             index   |-> [j \in 1..n |-> j - 1],
             rows    |-> [j \in 1..n |-> df.rows[j]]]

\* plotter_static.py:17-40
DownsampleData(df, factor) ==
    IF factor <= 1 THEN df
    ELSE LET n == (Len(df.rows) + factor - 1) \div factor
         IN [columns |-> df.columns,
             index   |-> [j \in 1..n |-> j - 1],
             rows    |-> [j \in 1..n |-> df.rows[(j - 1) * factor + 1]]]

\* a variant whose padding is relative to the spread, undefined for a
\* spread of zero
CalculateGlobalRangesRelative(data, axes) ==
    [a \in {axes[k] : k \in 1..Len(axes)} |->
        LET all_values == UNION {{data[c].rows[j][a] : j \in 1..Len(data[c].rows)} :
                                    c \in DOMAIN data}
        IN IF NaN \in all_values THEN <<NaN, NaN>>
           ELSE LET min_val == SetMin(all_values)
                    max_val == SetMax(all_values)
                IN IF max_val = min_val THEN <<NaN, NaN>>
                   ELSE <<RangeScale * min_val - (max_val - min_val),
                          RangeScale * max_val + (max_val - min_val)>>]

\* plotter.py:12-42, plotter_static.py:43-70: per axis the pair
\* (min - padding, max + padding) over all conditions, in units of
\* 1/RangeScale; NaN if any value is NaN
CalculateGlobalRanges(data, axes) ==
    [a \in {axes[k] : k \in 1..Len(axes)} |->
        LET all_values == UNION {{data[c].rows[j][a] : j \in 1..Len(data[c].rows)} :
                                    c \in DOMAIN data}
        IN IF NaN \in all_values THEN <<NaN, NaN>>
           ELSE LET min_val == SetMin(all_values)
                    max_val == SetMax(all_values)
                    padding == max_val - min_val
                IN <<RangeScale * min_val - padding, RangeScale * max_val + padding>>]

\* the magnitudes of one axis at every bin, whatever the cutoff
MagnitudesAll(spectra, axis, max_frequency) ==
    UNION {{spectra[c].axes[axis].magnitude[k] :
                k \in 1..Len(spectra[c].axes[axis].frequencies)} :
           c \in DOMAIN spectra}

\* plotter.py:70-76: the magnitudes of one axis at the bins up to the cutoff
MagnitudesUpTo(spectra, axis, max_frequency) ==
    UNION {{spectra[c].axes[axis].magnitude[k] :
                k \in {k \in 1..Len(spectra[c].axes[axis].frequencies) :
                         QLe(spectra[c].axes[axis].frequencies[k], max_frequency)}} :
           c \in DOMAIN spectra}

\* plotter.py:80, plotter_static.py:98: np.max of no values raises ValueError
FrequencyRangesRaise(spectra, axes, max_frequency) ==
    \E k \in 1..Len(axes) : MagnitudesUpTo(spectra, axes[k], max_frequency) = {}

\* plotter.py:45-87, plotter_static.py:73-103: per axis the lower bound 0,
\* the magnitudes whose maximum max_mag is taken, and the padding added to
\* it as a fraction of max_mag (the magnitudes are the library's values)
CalculateGlobalFrequencyRanges(spectra, axes, max_frequency) ==
    [a \in {axes[k] : k \in 1..Len(axes)} |->
        [min_mag |-> 0,
         max_of  |-> MagnitudesUpTo(spectra, a, max_frequency),
         padding |-> <<1, RangeScale>>]]

\* the grid rows of the conditions that have data
PresentRows(conditions, data) ==
    {r \in 1..Len(conditions) : conditions[r] \in DOMAIN data}

AllCells(rows, axes) == {<<r, k>> : r \in rows, k \in 1..Len(axes)}

\* one message per condition of the display order that has no data
RECURSIVE SkipMessages(_, _, _, _)
SkipMessages(conditions, data, level, msg) ==
    IF conditions = <<>> THEN <<>>
    ELSE (IF Head(conditions) \in DOMAIN data THEN <<>>
          ELSE << <<level, msg, Head(conditions)>> >>)
         \o SkipMessages(Tail(conditions), data, level, msg)

\* main.py:65-74 and plotter.py:114-129: create_vibration_plot is entered
\* and computes the ranges of the axes
TimeRanges ==
    /\ pc = "render"
    /\ program = "main"
    /\ time_fig' = [NoFigure EXCEPT
                       !.y_ranges = CalculateGlobalRanges(all_data, AXIS_COLUMNS),
                       !.plotted = all_data]
    /\ log' = Append(Append(log, <<"PRINT", "Creating TIME DOMAIN plot", 0>>),
                     <<"PRINT", "Calculating global ranges", 0>>)
    /\ pc' = "draw_time"
    /\ UNCHANGED <<stitchVars, rateVars, inputVars, loadVars, spectraVars,
                   max_freq, freq_fig, outputs, raised>>

\* plotter.py:131-199: the grid is made and the traces are added
CreateVibrationPlot ==
    /\ pc = "draw_time"
    /\ time_fig' =
          [time_fig EXCEPT
              !.kind      = "plotly",
              !.grid_rows = Len(CONDITIONS),
              !.grid_cols = Len(AXIS_COLUMNS),
              !.subplots  = AllCells(1..Len(CONDITIONS), AXIS_COLUMNS),
              !.traces    = AllCells(PresentRows(CONDITIONS, all_data), AXIS_COLUMNS)]
    /\ log' = log \o SkipMessages(CONDITIONS, all_data, "PRINT", "No data for condition")
    /\ pc' = "render_freq"
    /\ UNCHANGED <<stitchVars, rateVars, inputVars, loadVars, spectraVars,
                   max_freq, freq_fig, outputs, raised>>

\* main.py:76-85 and plotter.py:226-234: create_frequency_plot is entered
\* and computes the magnitude ranges of the axes
FrequencyRanges ==
    /\ pc = "render_freq"
    /\ ~FrequencyRangesRaise(all_spectra, AXIS_COLUMNS, max_freq)
    /\ freq_fig' = [NoFigure EXCEPT
                       !.y_ranges = CalculateGlobalFrequencyRanges(all_spectra,
                                        AXIS_COLUMNS, max_freq),
                       !.plotted = all_spectra]
    /\ log' = Append(Append(log, <<"PRINT", "Creating FREQUENCY DOMAIN plot", 0>>),
                     <<"PRINT", "Calculating global frequency ranges", 0>>)
    /\ pc' = "draw_freq"
    /\ UNCHANGED <<stitchVars, rateVars, inputVars, loadVars, spectraVars,
                   max_freq, time_fig, outputs, raised>>

\* plotter.py:236-314: the grid is made and the traces are added
CreateFrequencyPlot ==
    /\ pc = "draw_freq"
    /\ freq_fig' =
          [freq_fig EXCEPT
              !.kind      = "plotly",
              !.grid_rows = Len(CONDITIONS),
              !.grid_cols = Len(AXIS_COLUMNS),
              !.subplots  = AllCells(1..Len(CONDITIONS), AXIS_COLUMNS),
              !.traces    = AllCells(PresentRows(CONDITIONS, all_spectra), AXIS_COLUMNS)]
    /\ log' = log \o SkipMessages(CONDITIONS, all_spectra, "PRINT",
                                  "No spectrum data for condition")
    /\ pc' = "save"
    /\ UNCHANGED <<stitchVars, rateVars, inputVars, loadVars, spectraVars,
                   max_freq, time_fig, outputs, raised>>

\* plotter.py:232-234 and 80: no bin lies at or below the cutoff, np.max
\* raises and nothing catches it
CreateFrequencyPlotRaises ==
    /\ pc = "render_freq"
    /\ FrequencyRangesRaise(all_spectra, AXIS_COLUMNS, max_freq)
    /\ log' = Append(Append(log, <<"PRINT", "Creating FREQUENCY DOMAIN plot", 0>>),
                     <<"PRINT", "Calculating global frequency ranges", 0>>)
    /\ raised' = [stage |-> "render", cond |-> 0, error |-> "ValueError"]
    /\ pc' = Propagates
    /\ UNCHANGED <<stitchVars, rateVars, inputVars, loadVars, spectraVars,
                   renderVars>>

\* main.py:87-112
SaveHtml ==
    /\ pc = "save"
    /\ outputs' = outputs \cup {"time_domain.html", "frequency_domain.html"}
    /\ log' = Append(Append(Append(log,
                     <<"PRINT", "Time domain plot saved", 0>>),
                     <<"PRINT", "Frequency domain plot saved", 0>>),
                     <<"PRINT", "COMPLETE", 0>>)
    /\ pc' = "done"
    /\ UNCHANGED <<stitchVars, rateVars, inputVars, loadVars, spectraVars,
                   max_freq, time_fig, freq_fig, raised>>

\* plotter_static.py:131-135
DownsampleAll(data, factor) ==
    [c \in DOMAIN data |-> DownsampleData(data[c], factor)]

\* a variant that puts the downsampled tables in place of the loaded ones
DownsampledInPlace(data, downsampled) == downsampled

\* plotter_static.py:133-135: the downsampled tables go into a new dict,
\* the loaded tables stay as they are
DownsampledIntoNewDict(data, downsampled) == data

\* export_pdf.py:74-93 and plotter_static.py:129-145: create_time_domain_pdf
\* is entered, downsamples the tables and computes the ranges of the axes
TimeRangesStatic ==
    /\ pc = "render"
    /\ program = "export_pdf"
    /\ LET downsampled_data == DownsampleAll(all_data, pdf_config.downsample_factor)
       IN /\ time_fig' = [NoFigure EXCEPT
                             !.y_ranges = CalculateGlobalRanges(downsampled_data,
                                              AXIS_COLUMNS),
                             !.plotted = downsampled_data]
          /\ log' = (Append(log, <<"PRINT", "Creating time-domain PDF", 0>>)
                       \o (IF pdf_config.downsample_factor <= 1 THEN <<>>
                           ELSE [k \in 1..Len(SortedSeq(DOMAIN all_data)) |->
                                   <<"INFO", "Downsampled", SortedSeq(DOMAIN all_data)[k]>>]))
                       \o << <<"PRINT", "Calculating global ranges", 0>> >>
          /\ all_data' = DownsampledIntoNewDict(all_data, downsampled_data)
    /\ pc' = "draw_time_pdf"
    /\ UNCHANGED <<stitchVars, rateVars, inputVars, cond_idx, spectraVars,
                   max_freq, freq_fig, outputs, raised>>

\* plotter_static.py:147-232: the grid is made, the present conditions are
\* plotted and the document is saved
CreateTimeDomainPdf ==
    /\ pc = "draw_time_pdf"
    /\ time_fig' =
          [time_fig EXCEPT
              !.kind      = "matplotlib",
              !.grid_rows = Len(CONDITIONS),
              !.grid_cols = Len(AXIS_COLUMNS),
              !.subplots  = AllCells(PresentRows(CONDITIONS, time_fig.plotted), AXIS_COLUMNS),
              !.traces    = AllCells(PresentRows(CONDITIONS, time_fig.plotted), AXIS_COLUMNS)]
    /\ log' = (Append(log, <<"PRINT", "Plotting data", 0>>)
                 \o SkipMessages(CONDITIONS, time_fig.plotted, "WARNING",
                                 "No data for condition"))
                 \o << <<"PRINT", "Time-domain PDF saved", 0>> >>
    /\ outputs' = outputs \cup {"time_domain.pdf"}
    /\ pc' = "render_freq_pdf"
    /\ UNCHANGED <<stitchVars, rateVars, inputVars, loadVars, spectraVars,
                   max_freq, freq_fig, raised>>

\* export_pdf.py:95-111 and plotter_static.py:254-260:
\* create_frequency_domain_pdf is entered and computes the magnitude ranges
FrequencyRangesStatic ==
    /\ pc = "render_freq_pdf"
    /\ ~FrequencyRangesRaise(all_spectra, AXIS_COLUMNS, max_freq)
    /\ freq_fig' = [NoFigure EXCEPT
                       !.y_ranges = CalculateGlobalFrequencyRanges(all_spectra,
                                        AXIS_COLUMNS, max_freq),
                       !.plotted = all_spectra]
    /\ log' = Append(Append(log, <<"PRINT", "Creating frequency-domain PDF", 0>>),
                     <<"PRINT", "Calculating global frequency ranges", 0>>)
    /\ pc' = "draw_freq_pdf"
    /\ UNCHANGED <<stitchVars, rateVars, inputVars, loadVars, spectraVars,
                   max_freq, time_fig, outputs, raised>>

\* plotter_static.py:262-356 and export_pdf.py:114-125: the grid is made,
\* the present conditions are plotted and the document is saved
CreateFrequencyDomainPdf ==
    /\ pc = "draw_freq_pdf"
    /\ freq_fig' =
          [freq_fig EXCEPT
              !.kind      = "matplotlib",
              !.grid_rows = Len(CONDITIONS),
              !.grid_cols = Len(AXIS_COLUMNS),
              !.subplots  = AllCells(PresentRows(CONDITIONS, all_spectra), AXIS_COLUMNS),
              !.traces    = AllCells(PresentRows(CONDITIONS, all_spectra), AXIS_COLUMNS)]
    /\ log' = (Append(log, <<"PRINT", "Plotting frequency spectra", 0>>)
                 \o SkipMessages(CONDITIONS, all_spectra, "WARNING",
                                 "No spectrum for condition"))
                 \o << <<"PRINT", "PDF EXPORT COMPLETE", 0>> >>
    /\ outputs' = outputs \cup {"frequency_domain.pdf"}
    /\ pc' = "done"
    /\ UNCHANGED <<stitchVars, rateVars, inputVars, loadVars, spectraVars,
                   max_freq, time_fig, raised>>

\* plotter_static.py:258-260 and 98: np.max of no values raises
CreateFrequencyDomainPdfRaises ==
    /\ pc = "render_freq_pdf"
    /\ FrequencyRangesRaise(all_spectra, AXIS_COLUMNS, max_freq)
    /\ log' = Append(Append(log, <<"PRINT", "Creating frequency-domain PDF", 0>>),
                     <<"PRINT", "Calculating global frequency ranges", 0>>)
    /\ raised' = [stage |-> "render", cond |-> 0, error |-> "ValueError"]
    /\ pc' = Propagates
    /\ UNCHANGED <<stitchVars, rateVars, inputVars, loadVars, spectraVars,
                   renderVars>>

\* ---------------------------------------------------------------------
\* The two scripts
\* ---------------------------------------------------------------------
Next ==
    \/ CliPathMissing
    \/ CliCallMain
    \/ CliCallExport
    \/ MainStart
    \/ ExportStart
    \/ LoadMissingDir
    \/ LoadFindFiles
    \/ StitchNoFiles
    \/ StitchBegin
    \/ StitchLoadFile
    \/ StitchLoadFileRaises
    \/ StitchConcat
    \/ LoadStore
    \/ LoadRaised
    \/ LoadReturn
    \/ CheckNoData
    \/ SpectraBegin
    \/ SpectrumStart
    \/ SpectrumAxis
    \/ SpectrumAxisKeyError
    \/ SpectrumWelchRaises
    \/ SpectrumDone
    \/ SpectraReturn
    \/ DisplayRange
    \/ TimeRanges
    \/ CreateVibrationPlot
    \/ FrequencyRanges
    \/ CreateFrequencyPlot
    \/ CreateFrequencyPlotRaises
    \/ SaveHtml
    \/ TimeRangesStatic
    \/ CreateTimeDomainPdf
    \/ FrequencyRangesStatic
    \/ CreateFrequencyDomainPdf
    \/ CreateFrequencyDomainPdfRaises

Spec == Init /\ [][Next]_vars

\* ---------------------------------------------------------------------
\* Properties of the load stage and of the early exit
\* ---------------------------------------------------------------------
\* the condition directories below the root the run loads from
LoadedTree == Tree(data_path, disk, custom_root)

\* the condition's directory exists and holds a file that cannot be read or
\* has no time column
LoadFails(c) == LoadedTree[c].exists /\ \E f \in LoadedTree[c].files : FileRaises(f)

\* the condition's directory exists and its readable files disagree on
\* their columns
InconsistentSchema(c) ==
    /\ LoadedTree[c].exists
    /\ \E f, g \in LoadedTree[c].files :
          f.readable /\ g.readable /\ f.columns # g.columns

\* the condition's directory is missing or holds no CSV file
NothingToLoad(c) == ~LoadedTree[c].exists \/ LoadedTree[c].files = {}

\* load_all_conditions has not been entered
BeforeLoad == pc \in {"idle", "cli", "exit_1", "start"}

\* the load loop has dealt with condition c
LoadPassed(c) == ~BeforeLoad /\ (cond_idx > c \/ pc # "load")

\* C4: a condition whose loading fails (unreadable file, no time column,
\* inconsistent schema) never ends the run: the failure is logged, the
\* condition stays out of all_data and the load loop goes on with the
\* remaining conditions.
C4_LoadFailureSkipsCondition ==
    \A c \in 1..NumConditions :
        (LoadFails(c) \/ InconsistentSchema(c)) =>
            /\ ~(pc = "crashed" /\ raised.stage = "load" /\ raised.cond = c)
            /\ (LoadPassed(c) /\ pc # "crashed") =>
                  /\ c \notin DOMAIN all_data
                  /\ \E k \in 1..Len(log) :
                        log[k][1] \in {"ERROR", "WARNING"} /\ log[k][3] = c

\* C5: a configured condition whose directory is missing or holds no CSV
\* file never appears in all_data or all_spectra and never ends the run; once
\* the load stage has returned every condition with a non-empty loaded table
\* is in all_data, and once the run is complete every one of them has its
\* spectrum.
C5_MissingOrEmptyConditionSkipped ==
    /\ \A c \in 1..NumConditions :
          NothingToLoad(c) =>
              /\ c \notin DOMAIN all_data
              /\ c \notin DOMAIN all_spectra
              /\ ~(pc = "crashed" /\ raised.cond = c)
    /\ (~BeforeLoad /\ pc \notin {"load", "crashed"}) =>
          \A c \in 1..NumConditions :
              (/\ ~NothingToLoad(c)
               /\ ~LoadFails(c)
               /\ \E f \in LoadedTree[c].files : Len(f.rows) > 0)
              => c \in DOMAIN all_data
    /\ pc = "done" => DOMAIN all_spectra = DOMAIN all_data

C5_Witness ==
    /\ pc = "done"
    /\ NumConditions >= 2
    /\ NothingToLoad(1)
    /\ 2 \in DOMAIN all_data
    /\ 2 \in DOMAIN all_spectra
    /\ \E k \in 1..Len(log) : log[k][1] = "WARNING" /\ log[k][3] = 1

\* the load stage has returned
LoadReturned == ~BeforeLoad /\ pc # "load" /\ raised.stage # "load"

\* C6: when no condition was loaded the run logs an error and ends before
\* the spectral and render stages: no spectrum, no display cutoff, no figure
\* and no output document.
C6_NoDataEndsRun ==
    (LoadReturned /\ DOMAIN all_data = {}) =>
        /\ pc \in {"loaded", "no_data"}
        /\ pc = "no_data" => log[Len(log)][1] = "ERROR"
        /\ all_spectra = <<>>
        /\ welch_calls = <<>>
        /\ max_freq = QNaN
        /\ time_fig = NoFigure
        /\ freq_fig = NoFigure
        /\ outputs \subseteq {"log.txt"}

C6_Witness ==
    /\ pc = "no_data"
    /\ DOMAIN all_data = {}
    /\ \E c \in 1..NumConditions : LoadedTree[c].exists /\ LoadedTree[c].files # {}
    /\ log[Len(log)] = <<"ERROR", "No data loaded", 0>>

\* ---------------------------------------------------------------------
\* The spectral stage on its own: any set of loaded tables, any window
\* ---------------------------------------------------------------------
\* a loaded table of n rows sampled once per tick, with or without the
\* first axis column
LoadedTable(n, has_axis) ==
    Concat(<<ReadCsv(FileOf(<<(IF has_axis THEN "ok" ELSE "no_axis"),
                              TimeColumn(0, 1, n)>>, 1))>>)

LoadedTables ==
    {LoadedTable(n, b) : n \in 1..MaxRows, b \in BOOLEAN}

WindowConfigs ==
    {[FFT_CONFIG EXCEPT !.nperseg = n, !.overlap = o] :
        n \in 1..MaxNperseg, o \in 0..MaxNperseg}

SpectraInit ==
    /\ program = "main"
    /\ argv = <<>>
    /\ custom_root = "missing"
    /\ data_path = "DATA_ROOT"
    /\ disk = <<>>
    /\ fft_config \in WindowConfigs
    /\ pdf_config = PDF_CONFIG
    /\ cond_idx = Len(CONDITIONS) + 1
    /\ \E S \in (SUBSET (1..NumConditions)) \ {{}} :
          all_data \in [S -> LoadedTables]
    /\ spectra_todo = <<>>
    /\ saxis = 0
    /\ result = EmptyResult
    /\ welch_calls = <<>>
    /\ all_spectra = <<>>
    /\ max_freq = QNaN
    /\ time_fig = NoFigure
    /\ freq_fig = NoFigure
    /\ outputs = {"log.txt"}
    /\ raised = NoException
    /\ pc = "loaded"
    /\ log = <<>>
    /\ StitchIdle
    /\ RateIdle

SpectraNext ==
    \/ SpectraBegin
    \/ SpectrumStart
    \/ SpectrumAxis
    \/ SpectrumAxisKeyError
    \/ SpectrumWelchRaises
    \/ SpectrumDone
    \/ SpectraReturn

SpecSpectra == SpectraInit /\ [][SpectraNext]_vars

\* ---------------------------------------------------------------------
\* Properties of the spectral stage
\* ---------------------------------------------------------------------
\* C9 (state part): every call of Welch's method gets the segment length
\* min(configured nperseg, signal length) and the overlap
\* min(configured overlap, segment length - 1), which is below the segment
\* length, whatever the conditions processed before it.
C9_ClampInv ==
    \A k \in 1..Len(welch_calls) :
        LET call == welch_calls[k]
            len == Len(all_data[call.cond].rows)
        IN /\ call.signal_len = len
           /\ call.nperseg = (IF fft_config.nperseg <= len
                                THEN fft_config.nperseg ELSE len)
           /\ call.noverlap = (IF fft_config.overlap <= call.nperseg - 1
                                 THEN fft_config.overlap ELSE call.nperseg - 1)
           /\ call.noverlap < call.nperseg

\* C9 (step part): the configured values are never written
C9_ConfigStep == fft_config' = fft_config

\* C9: for every condition and axis the segment length passed to Welch's
\* method is min(configured nperseg, signal length) and the overlap is
\* min(configured overlap, segment length - 1), so below the segment length;
\* the clamp is recomputed per condition and axis from the unchanged
\* configuration, so a short condition never shortens a longer one's segment.
C9_WelchClamp == [] C9_ClampInv /\ [][C9_ConfigStep]_vars

C9_Witness ==
    \E k1, k2 \in 1..Len(welch_calls) :
        /\ k1 < k2
        /\ welch_calls[k1].cond # welch_calls[k2].cond
        /\ welch_calls[k1].nperseg < fft_config.nperseg
        /\ welch_calls[k1].noverlap < fft_config.overlap
        /\ welch_calls[k2].nperseg = fft_config.nperseg
        /\ welch_calls[k2].signal_len > welch_calls[k1].signal_len

\* get_frequency_display_range has returned and nothing was raised since
CutoffComputed ==
    pc \in {"render", "draw_time", "render_freq", "draw_freq", "save",
            "draw_time_pdf", "render_freq_pdf", "draw_freq_pdf", "done"}

\* the values the display cutoff is the minimum of
CutoffCandidates ==
    {all_spectra[c].nyquist_freq : c \in DOMAIN all_spectra}
        \cup (IF fft_config.max_frequency = QNone THEN {}
              ELSE {fft_config.max_frequency})

\* C10: the display cutoff is min(configured max_frequency, smallest Nyquist
\* frequency of the conditions), an unset max_frequency counting as infinity:
\* it is one of these values, it exceeds no condition's Nyquist frequency and
\* it does not exceed the configured maximum.
C10_CutoffIsMinimum ==
    CutoffComputed =>
        /\ max_freq \in CutoffCandidates
        /\ \A cand \in CutoffCandidates : ~QLt(cand, max_freq)

\* the same for spectra whose Nyquist frequencies are all numbers
C10_CutoffIsMinimumOfNumbers ==
    (/\ CutoffComputed
     /\ \A c \in DOMAIN all_spectra : all_spectra[c].nyquist_freq.kind # "nan")
    => /\ max_freq \in CutoffCandidates
       /\ \A cand \in CutoffCandidates : ~QLt(cand, max_freq)

\* ---------------------------------------------------------------------
\* Properties of the range normalizer
\* ---------------------------------------------------------------------
\* the tables the time-domain normalizer is called with
RangeInput ==
    IF program = "main" THEN all_data
    ELSE DownsampleAll(all_data, pdf_config.downsample_factor)

AxisSet == {AXIS_COLUMNS[k] : k \in 1..Len(AXIS_COLUMNS)}

\* the values of one axis over all conditions of a collection of tables
AxisValues(data, a) ==
    UNION {{data[c].rows[j][a] : j \in 1..Len(data[c].rows)} : c \in DOMAIN data}

\* lo <= v <= hi as floats, the bounds in units of 1/RangeScale
Within(v, bound) ==
    /\ v # NaN
    /\ FLe(bound[1], RangeScale * v)
    /\ FLe(RangeScale * v, bound[2])

TimeFigureBuilt == time_fig.kind # "none"

FrequencyFigureBuilt == freq_fig.kind # "none"

\* C11: for every axis, every value the range normalizer takes as input
\* lies within the bound returned for that axis: every amplitude of every
\* loaded condition (time domain), every magnitude at a bin at or below the
\* display cutoff (frequency domain).
C11_Containment ==
    /\ TimeFigureBuilt =>
          \A a \in AxisSet : \A v \in AxisValues(RangeInput, a) :
              Within(v, time_fig.y_ranges[a])
    /\ FrequencyFigureBuilt =>
          \A a \in AxisSet : \A c \in DOMAIN all_spectra :
              \A k \in 1..Len(all_spectra[c].axes[a].frequencies) :
                  QLe(all_spectra[c].axes[a].frequencies[k], max_freq) =>
                      /\ freq_fig.y_ranges[a].min_mag = 0
                      /\ all_spectra[c].axes[a].magnitude[k]
                            \in freq_fig.y_ranges[a].max_of

\* the same for tables without missing values
C11_ContainmentOfNumbers ==
    (/\ TimeFigureBuilt
     /\ \A a \in AxisSet : NaN \notin AxisValues(RangeInput, a))
    => \A a \in AxisSet : \A v \in AxisValues(RangeInput, a) :
           Within(v, time_fig.y_ranges[a])

\* the bins of one condition and axis at or below the cutoff, and above it
BinsUpTo(c, a) ==
    {k \in 1..Len(all_spectra[c].axes[a].frequencies) :
        QLe(all_spectra[c].axes[a].frequencies[k], max_freq)}

BinsAbove(c, a) ==
    (1..Len(all_spectra[c].axes[a].frequencies)) \ BinsUpTo(c, a)

\* C12: the frequency-domain range of every axis has min exactly 0 and max
\* M + 5% of M, M the largest magnitude over all conditions at the bins at
\* or below the display cutoff; no magnitude above the cutoff takes part.
C12_FrequencyRange ==
    FrequencyFigureBuilt =>
        \A a \in AxisSet :
            LET range == freq_fig.y_ranges[a]
            IN /\ range.min_mag = 0
               /\ 100 * range.padding[1] = 5 * range.padding[2]
               /\ range.max_of =
                     UNION {{all_spectra[c].axes[a].magnitude[k] :
                                k \in BinsUpTo(c, a)} :
                            c \in DOMAIN all_spectra}
               /\ \A c \in DOMAIN all_spectra : \A k \in BinsAbove(c, a) :
                     all_spectra[c].axes[a].magnitude[k] \notin range.max_of

C12_Witness ==
    /\ FrequencyFigureBuilt
    /\ \E c1, c2 \in DOMAIN all_spectra :
          /\ c1 # c2
          /\ BinsAbove(c1, "X") # {}
          /\ BinsUpTo(c1, "X") # {}
          /\ BinsUpTo(c2, "X") # {}

\* the axes all of whose values, over all conditions, are one number
ConstantAxes ==
    {a \in AxisSet : /\ Cardinality(AxisValues(RangeInput, a)) = 1
                     /\ NaN \notin AxisValues(RangeInput, a)}

\* C13: if every value of an axis across all conditions is the same value v,
\* the time-domain range of that axis is the point range (v, v): the padding
\* is 0, nothing is raised and neither bound is NaN.
C13_DegenerateRange ==
    /\ TimeFigureBuilt =>
          \A a \in ConstantAxes : \A v \in AxisValues(RangeInput, a) :
              /\ time_fig.y_ranges[a] = <<RangeScale * v, RangeScale * v>>
              /\ time_fig.y_ranges[a][1] # NaN
              /\ time_fig.y_ranges[a][2] # NaN
    /\ raised.stage = "render" => TimeFigureBuilt

C13_Witness ==
    /\ TimeFigureBuilt
    /\ program = "main"
    /\ "X" \in ConstantAxes
    /\ Cardinality(DOMAIN all_data) = 2

\* ---------------------------------------------------------------------
\* Properties of the renderers
\* ---------------------------------------------------------------------
\* the rows of the display order whose condition has no data
AbsentRows(data) == (1..Len(CONDITIONS)) \ PresentRows(CONDITIONS, data)

SkipLogged(r, msgs) ==
    \E k \in 1..Len(log) : log[k][2] \in msgs /\ log[k][3] = CONDITIONS[r]

\* a skip message is written for every absent condition of a built figure
SkipsLogged ==
    /\ TimeFigureBuilt =>
          \A r \in AbsentRows(all_data) : SkipLogged(r, {"No data for condition"})
    /\ FrequencyFigureBuilt =>
          \A r \in AbsentRows(all_spectra) :
              SkipLogged(r, {"No spectrum data for condition",
                             "No spectrum for condition"})

\* the grid of a figure has rows only for the conditions that have data
GridOmitsAbsentRows(fig, data) ==
    /\ fig.grid_rows = Cardinality(PresentRows(CONDITIONS, data))
    /\ \A cell \in fig.subplots : cell[1] \notin AbsentRows(data)

\* C14: when the display order names a condition absent from the loaded
\* data, the renderer logs a skip for it and does not crash, and the grid
\* omits that condition's row: it has rows only for conditions present.
C14_AbsentConditionOmitted ==
    /\ SkipsLogged
    /\ (TimeFigureBuilt /\ AbsentRows(all_data) # {}) =>
          GridOmitsAbsentRows(time_fig, all_data)
    /\ (FrequencyFigureBuilt /\ AbsentRows(all_spectra) # {}) =>
          GridOmitsAbsentRows(freq_fig, all_spectra)

\* ---------------------------------------------------------------------
\* Properties of the command line
\* ---------------------------------------------------------------------
\* a root directory is named on the command line and does not exist
CliRejected == program = "main" /\ Len(argv) > 0 /\ custom_root = "missing"

\* the root the run has to load from
ExpectedRoot == IF Len(argv) > 0 THEN argv[1] ELSE "DATA_ROOT"

\* the exit status of the process once it has ended
ExitStatus == IF pc \in {"exit_1", "crashed"} THEN 1 ELSE 0

\* C15: a root directory given on the command line that does not exist makes
\* the program print a path-not-found message and exit with non-zero status
\* before any processing (no log file is set up, nothing is loaded); without
\* an argument the configured root is used, with an existing path that path.
C15_CommandLine ==
    pc # "cli" =>
        /\ CliRejected =>
              /\ pc = "exit_1"
              /\ ExitStatus # 0
              /\ log = << <<"PRINT", "Path does not exist", 0>> >>
              /\ "log.txt" \notin outputs
              /\ cond_idx = 0 /\ all_data = <<>> /\ lpc = "idle"
        /\ ~CliRejected =>
              /\ pc # "exit_1"
              /\ data_path = ExpectedRoot
              /\ \A c \in DOMAIN all_data :
                    LET dir == Tree(ExpectedRoot, disk, custom_root)[c]
                    IN dir.exists /\ dir.files # {}

C15_Witness ==
    /\ pc = "exit_1"
    /\ CliRejected
    /\ \E c \in DOMAIN disk : disk[c].exists /\ disk[c].files # {}

\* ---------------------------------------------------------------------
\* Properties of the diagnostics
\* ---------------------------------------------------------------------
SinkMessages(sink) == {sink[k] : k \in 1..Len(sink)}

\* C16: every progress, warning and error message of a run is written to
\* both sinks: what appears on the console appears in the run log file, and
\* the other way round.
C16_DualWritten ==
    SinkMessages(ConsoleSink(log)) = SinkMessages(FileSink(outputs, log))

\* what does hold: the run log file holds nothing the console lacks
C16_FileWithinConsole ==
    SinkMessages(FileSink(outputs, log)) \subseteq SinkMessages(ConsoleSink(log))

\* the positions 0, N, 2N, ... of a table of len rows
EveryNth(len, N) == {j \in 0..(len - 1) : j % N = 0}

\* out holds the rows 0, N, 2N, ... of df, in their order, renumbered
KeepsEveryNth(df, out, N) ==
    /\ out.columns = df.columns
    /\ Len(out.rows) = Cardinality(EveryNth(Len(df.rows), N))
    /\ \A j \in 1..Len(out.rows) :
          /\ out.rows[j] = df.rows[(j - 1) * N + 1]
          /\ out.index[j] = j - 1

\* C17: downsampling happens on the PDF path only and keeps the rows
\* 0, N, 2N, ... in order for a factor N > 1; for a factor <= 1 the table is
\* plotted as it is. The interactive figure is drawn from the full tables and
\* every spectrum, on both paths, is computed from the full series.
C17_Downsampling ==
    /\ (TimeFigureBuilt /\ program = "main") => time_fig.plotted = all_data
    /\ (TimeFigureBuilt /\ program = "export_pdf") =>
          /\ DOMAIN time_fig.plotted = DOMAIN all_data
          /\ \A c \in DOMAIN all_data :
                IF pdf_config.downsample_factor <= 1
                THEN time_fig.plotted[c] = all_data[c]
                ELSE KeepsEveryNth(all_data[c], time_fig.plotted[c],
                                   pdf_config.downsample_factor)
    /\ \A k \in 1..Len(welch_calls) :
          welch_calls[k].signal_len = Len(all_data[welch_calls[k].cond].rows)

C17_Witness ==
    /\ TimeFigureBuilt
    /\ program = "export_pdf"
    /\ pdf_config.downsample_factor = 2
    /\ \E c \in DOMAIN all_data :
          /\ Len(all_data[c].rows) = 3
          /\ Len(time_fig.plotted[c].rows) = 2
          /\ \E k \in 1..Len(welch_calls) :
                welch_calls[k].cond = c /\ welch_calls[k].signal_len = 3

\* ---------------------------------------------------------------------
\* Properties of the order of the stages
\* ---------------------------------------------------------------------
\* the run is over
Ended == pc \in {"done", "no_data", "crashed", "exit_1"}

\* the stage the step taken from a position belongs to: 0 before the
\* pipeline, 1 load/stitch, 2 spectral estimation, 3 range normalization,
\* 4 rendering, 5 after the run
StageOf(p) ==
    CASE p \in {"idle", "cli", "start"} -> 0
      [] p = "load" -> 1
      [] p \in {"loaded", "spectra", "display_range"} -> 2
      [] p \in {"render", "render_freq", "render_freq_pdf"} -> 3
      [] p \in {"draw_time", "draw_freq", "save", "draw_time_pdf", "draw_freq_pdf"} -> 4
      [] OTHER -> 5

\* the same with range normalization and rendering told apart by domain:
\* 3 time-domain ranges, 4 time-domain rendering, 5 frequency-domain ranges,
\* 6 frequency-domain rendering and saving, 7 after the run
StepOf(p) ==
    CASE p \in {"idle", "cli", "start"} -> 0
      [] p = "load" -> 1
      [] p \in {"loaded", "spectra", "display_range"} -> 2
      [] p = "render" -> 3
      [] p \in {"draw_time", "draw_time_pdf"} -> 4
      [] p \in {"render_freq", "render_freq_pdf"} -> 5
      [] p \in {"draw_freq", "draw_freq_pdf", "save"} -> 6
      [] OTHER -> 7

\* inside a stage the work only advances: no condition is loaded or
\* estimated a second time, and a run that has ended stays ended
NoRetryStep ==
    /\ (pc = "load" /\ pc' = "load") => cond_idx' >= cond_idx
    /\ (pc = "spectra" /\ pc' = "spectra") => Len(spectra_todo') <= Len(spectra_todo)
    /\ Ended => pc' = pc

C18_StageStep == StageOf(pc') >= StageOf(pc) /\ NoRetryStep

\* C18: the stages run strictly in the order load/stitch, spectral
\* estimation, range normalization, rendering; each stage runs at most once
\* and starts only after the previous one has finished; none is retried or
\* re-entered.
C18_StagesInOrder == [][C18_StageStep]_vars

C18_StepStep == StepOf(pc') >= StepOf(pc) /\ NoRetryStep

\* C18, amended: the order is load/stitch, spectral estimation with the
\* display cutoff, time-domain ranges, time-domain rendering,
\* frequency-domain ranges, frequency-domain rendering; each of these runs
\* at most once, after the previous one has finished, and none is retried.
C18_StepsInOrder == [][C18_StepStep]_vars

C18_Witness ==
    /\ pc = "done"
    /\ TimeFigureBuilt
    /\ FrequencyFigureBuilt
    /\ Cardinality(DOMAIN all_spectra) = 2

\* ---------------------------------------------------------------------
\* Properties of the loaded tables
\* ---------------------------------------------------------------------
\* C19 (step): once load_all_conditions has returned, no step changes
\* all_data: no row, time value or axis value of a condition changes and no
\* condition is added or removed.
C19_TablesStep == LoadReturned => all_data' = all_data

\* C19: after load_all_conditions has returned the per-condition series in
\* all_data are never modified by spectral estimation, range normalization,
\* downsampling or rendering.
C19_TablesImmutable == [][C19_TablesStep]_vars

C19_Witness ==
    /\ pc = "done"
    /\ program = "export_pdf"
    /\ pdf_config.downsample_factor > 1
    /\ \E c \in DOMAIN all_data :
          /\ Len(all_data[c].rows) > Len(time_fig.plotted[c].rows)
          /\ c \in DOMAIN all_spectra

\* ---------------------------------------------------------------------
\* Properties of the stitcher's empty input
\* ---------------------------------------------------------------------
\* C20: given zero segments, load_and_concatenate_csvs returns an empty
\* table and logs a warning; it raises nothing and logs no error.
C20_ZeroSegments ==
    (csv_files = <<>> /\ lpc \in {"loop", "done", "raised"}) =>
        /\ lpc = "done"
        /\ combined_df = EmptyDataFrame
        /\ DfEmpty(combined_df)
        /\ log = << <<"WARNING", "No CSV files provided">> >>

C20_Witness ==
    /\ csv_files = <<>>
    /\ lpc = "done"
    /\ DfLen(combined_df) = 0
    /\ Len(log) = 1

\* ---------------------------------------------------------------------
\* Properties of the rows of the stitched table
\* ---------------------------------------------------------------------
\* the number of rows of the files before file k
RECURSIVE RowsBefore(_, _)
RowsBefore(files, k) ==
    IF k <= 1 THEN 0
    ELSE RowsBefore(files, k - 1) + Len(files[k - 1].rows)

\* the axis columns of a file
AxisColumnsOf(file) == file.columns \ {TIME_COLUMN}

\* load_and_concatenate_csvs has returned the concatenation of some files
Stitched == lpc = "done" /\ csv_files # <<>>

\* C21: the stitched table holds exactly the rows of all segments, in file
\* order and in each segment's row order: its row count is the sum of the
\* segments' row counts, every row keeps the axis values it had in its file
\* (a column its file did not have is NaN), and the rows are indexed 0..n-1.
C21_RowsPreserved ==
    Stitched =>
        /\ DfLen(combined_df) = RowsBefore(csv_files, Len(csv_files) + 1)
        /\ combined_df.index = [j \in 1..DfLen(combined_df) |-> j - 1]
        /\ combined_df.columns = UNION {csv_files[k].columns : k \in 1..Len(csv_files)}
        /\ \A k \in 1..Len(csv_files) : \A j \in 1..Len(csv_files[k].rows) :
              LET row == combined_df.rows[RowsBefore(csv_files, k) + j]
              IN /\ \A c \in AxisColumnsOf(csv_files[k]) :
                       row[c] = csv_files[k].rows[j][c]
                 /\ \A c \in combined_df.columns \ csv_files[k].columns :
                       row[c] = NaN

\* two files of at least two rows each, the second without the first axis
\* column, have been stitched
C21_Witness ==
    /\ Stitched
    /\ Len(csv_files) = 2
    /\ Len(csv_files[1].rows) >= 2
    /\ Len(csv_files[2].rows) >= 2
    /\ AXIS_COLUMNS[1] \notin csv_files[2].columns
    /\ DfLen(combined_df) = Len(csv_files[1].rows) + Len(csv_files[2].rows)

\* ---------------------------------------------------------------------
\* Properties of the spectrum records
\* ---------------------------------------------------------------------
\* compute_all_frequency_spectra has returned
SpectraReturned ==
    \/ pc = "display_range"
    \/ CutoffComputed
    \/ pc = "crashed" /\ raised.stage = "render"

\* the record of condition c holds the sampling rate of the condition's time
\* column, half of it as the Nyquist frequency, and one entry of frequencies
\* and magnitudes of equal length for every configured axis
SpectrumRecord(c) ==
    LET spectrum == all_spectra[c]
    IN /\ spectrum.sampling_rate =
              CalculateSamplingRate(ColumnValues(all_data[c], TIME_COLUMN))
       /\ spectrum.nyquist_freq = QHalf(spectrum.sampling_rate)
       /\ DOMAIN spectrum.axes = AxisSet
       /\ \A axis \in AxisSet :
             /\ DOMAIN spectrum.axes[axis] = {"frequencies", "magnitude"}
             /\ Len(spectrum.axes[axis].frequencies) = Len(spectrum.axes[axis].magnitude)
             /\ \A k \in 1..Len(spectrum.axes[axis].magnitude) :
                   spectrum.axes[axis].magnitude[k] = <<"magnitude", c, axis, k - 1>>

\* C22: after the spectral stage all_spectra has exactly the condition names
\* of all_data: every loaded condition has one spectrum record holding a
\* sampling rate, a Nyquist frequency of half the sampling rate and one
\* (frequencies, magnitude) entry per configured axis, and no condition that
\* was not loaded has a spectrum.
C22_SpectraMatchData ==
    /\ DOMAIN all_spectra \subseteq DOMAIN all_data
    /\ SpectraReturned =>
          /\ DOMAIN all_spectra = DOMAIN all_data
          /\ \A c \in DOMAIN all_spectra : SpectrumRecord(c)

\* the spectral stage has returned for two loaded conditions
C22_Witness ==
    /\ SpectraReturned
    /\ Cardinality(DOMAIN all_data) = 2
    /\ DOMAIN all_spectra = DOMAIN all_data
    /\ \E c \in DOMAIN all_spectra : all_spectra[c].sampling_rate.kind = "num"

\* ---------------------------------------------------------------------
\* Properties of the collections the minima and maxima are taken over
\* ---------------------------------------------------------------------
\* get_frequency_display_range or a range normalizer has been reached
CutoffOrRangesReached == SpectraReturned

\* the keys of all_data are configured conditions and no table is empty
TablesNonEmpty ==
    /\ DOMAIN all_data \subseteq {CONDITIONS[c] : c \in 1..Len(CONDITIONS)}
    /\ \A c \in DOMAIN all_data :
          /\ ~DfEmpty(all_data[c])
          /\ DfLen(all_data[c]) >= 1

\* the minimum of the Nyquist frequencies and the minimum and maximum of the
\* amplitudes of an axis are taken over at least one value
ConditionsNonEmpty ==
    /\ CutoffOrRangesReached =>
          DOMAIN all_data # {} /\ DOMAIN all_spectra # {}
    /\ pc = "display_range" => NyquistFrequencies(all_spectra) # <<>>
    /\ pc = "render" => \A a \in AxisSet : AxisValues(RangeInput, a) # {}

\* the maximum of the magnitudes of an axis is taken over at least one value
MagnitudesNonEmpty ==
    pc \in {"render_freq", "render_freq_pdf"} =>
        \A a \in AxisSet : MagnitudesUpTo(all_spectra, a, max_freq) # {}

\* what holds of C23: the tables are never empty, and the display cutoff and
\* the time-domain normalizer take their minima and maxima over at least one
\* value
C23_TablesAndConditionsNonEmpty == TablesNonEmpty /\ ConditionsNonEmpty

\* C23: in both pipelines the display-cutoff computation and the range
\* normalizers are reached only with a non-empty set of conditions that hold
\* at least one row each: all_data never holds an empty table, its keys are
\* configured conditions, and no minimum or maximum over the conditions is
\* taken over an empty collection.
C23_NoEmptyCollection ==
    /\ TablesNonEmpty
    /\ ConditionsNonEmpty
    /\ MagnitudesNonEmpty

====
